---- MODULE Spec2Model ----
(***************************************************************************)
(* Model of src/src/round-result.ts: the Road grid abstraction, the        *)
(* derived-road builder generateDownRoadData and the what-if prediction    *)
(* DownRoad.getPrediction.                                                 *)
(*                                                                         *)
(* Encodings.                                                              *)
(*  - A JavaScript array is a TLA+ sequence; JS index i is TLA+ index i+1. *)
(*  - The JS value undefined is the record Undefined; a present object is  *)
(*    a record that carries defined |-> TRUE.                              *)
(*  - The two constructor arguments row and column are JS numbers that may *)
(*    be non-integers, so they are carried in halves: the number n is the  *)
(*    integer 2n (1 is 2, 0.5 is 1, 1.5 is 3).                             *)
(*  - A call either returns or throws; the outcome of a call is a record   *)
(*    with a field threw.                                                  *)
(***************************************************************************)
EXTENDS Integers, Sequences, FiniteSets, TLC

VARIABLES constructed, row, column, roundResults, lastCall

vars == <<constructed, row, column, roundResults, lastCall>>

(***************************************************************************)
(* Bounds of the model                                                     *)
(***************************************************************************)
MaxRounds == 6

\* constructor arguments tried, in halves: -1, 0, 0.5, 1, 2, 3
RowInputs == {-2, 0, 1, 2, 4, 6}
\* constructor arguments tried, in halves: -1, 0, 1.5, 2
ColumnInputs == {-2, 0, 3, 4}

(***************************************************************************)
(* Enumerations                                                            *)
(***************************************************************************)
Tie == "Tie"
BankerWin == "BankerWin"
PlayerWin == "PlayerWin"
GameResult == {Tie, BankerWin, PlayerWin}

NoPair == "NoPair"
BankerPair == "BankerPair"
PlayerPair == "PlayerPair"
AllPair == "AllPair"
PairResult == {NoPair, BankerPair, PlayerPair, AllPair}

BigEyeRoadGap == 1
SmallRoadGap == 2
CockroachRoadGap == 3
DownRoadGap == {BigEyeRoadGap, SmallRoadGap, CockroachRoadGap}

Undefined == [defined |-> FALSE]

(***************************************************************************)
(* RoundResult                                                             *)
(***************************************************************************)
RoundResult(order, result, gameResult, pairResult) ==
  [order |-> order, result |-> result, gameResult |-> gameResult,
   pairResult |-> pairResult]

RoundResultFrom(source) ==
  RoundResult(source.order, source.result, source.gameResult, source.pairResult)

\* the rounds a caller appends: (result, gameResult, pairResult)
RoundInputs ==
  { <<0, Tie, AllPair>>, <<9, BankerWin, BankerPair>>, <<8, PlayerWin, NoPair>> }

(***************************************************************************)
(* JavaScript helpers                                                      *)
(***************************************************************************)
Max(S) == CHOOSE m \in S : \A x \in S : x <= m

\* arr[i] of a JS array: undefined outside 0 .. length-1 (negative included)
At(arr, i) == IF i >= 0 /\ i < Len(arr) THEN arr[i + 1] ELSE Undefined

\* typeof x !== 'undefined'
IsDefined(x) == x.defined

\* The({body : x \in {value}}) is body with x the value, computed once, as
\* in  const x = value; body
The(singleton) == CHOOSE x \in singleton : TRUE

\* a number held in a JS array of numbers
Num(n) == [defined |-> TRUE, value |-> n]

(***************************************************************************)
(* SharedBigRoad: the primary grid built from a round history.  Its source *)
(* is not part of src/; it is modelled from the specification: one column  *)
(* per streak of same-winner rounds filled top to bottom, a fixed number   *)
(* of rows, columns that grow without limit, a streak that cannot go       *)
(* further down continuing to the right (the tail), ties adding no cell,   *)
(* every cell carrying the order of the round that produced it.            *)
(***************************************************************************)
BigRoadItem(order) == [defined |-> TRUE, order |-> order]

Occupied(graph, r, c) == r < Len(graph) /\ IsDefined(At(graph[r + 1], c))

RECURSIVE FirstFreeColumn(_, _, _)
FirstFreeColumn(graph, r, c) ==
  IF Occupied(graph, r, c) THEN FirstFreeColumn(graph, r, c + 1) ELSE c

RECURSIVE Holes(_)
Holes(n) == IF n <= 0 THEN <<>> ELSE Append(Holes(n - 1), Undefined)

\* arr[c] = item on a JS array: the array grows to c + 1 entries, the entries
\* skipped staying undefined
SetAt(arr, c, item) ==
  IF c < Len(arr) THEN [arr EXCEPT ![c + 1] = item]
  ELSE Append(arr \o Holes(c - Len(arr)), item)

\* graph[r][c] = item
SetCell(graph, r, c, item) == [graph EXCEPT ![r + 1] = SetAt(@, c, item)]

\* the cursor after a cell was written at (r, c)
Placed(st, r, c, start, round, turned) ==
  [graph |-> SetCell(st.graph, r, c, BigRoadItem(round.order)),
   r |-> r, c |-> c, start |-> start, winner |-> round.gameResult, turned |-> turned]

\* one round placed on the grid; st is the cursor of the streak in progress
PlaceRound(st, round) ==
  IF round.gameResult = Tie THEN st
  ELSE IF st.start < 0 \/ round.gameResult # st.winner
  THEN The({ Placed(st, 0, c, c, round, FALSE) :
               c \in {FirstFreeColumn(st.graph, 0, st.start + 1)} })
  ELSE IF ~st.turned /\ st.r + 1 < Len(st.graph) /\ ~Occupied(st.graph, st.r + 1, st.c)
  THEN Placed(st, st.r + 1, st.c, st.start, round, FALSE)
  ELSE The({ Placed(st, st.r, c, st.start, round, TRUE) :
               c \in {FirstFreeColumn(st.graph, st.r, st.c + 1)} })

RECURSIVE PlaceRounds(_, _, _)
PlaceRounds(st, results, i) ==
  IF i > Len(results) THEN st
  ELSE The({ PlaceRounds(next, results, i + 1) :
               next \in {PlaceRound(st, results[i])} })

\* rawArray of new SharedBigRoad(row, column, results): as many rows as the
\* road has, each as long as its last occupied column requires
SharedBigRoad(rowArg, columnArg, results) ==
  The({ PlaceRounds(st, rs, 1).graph :
          st \in {[graph |-> [ri \in 1 .. (rowArg \div 2) |-> <<>>],
                   r |-> 0, c |-> 0, start |-> -1, winner |-> Tie, turned |-> FALSE]},
          rs \in {results} })

(***************************************************************************)
(* generateDownRoadData                                                    *)
(***************************************************************************)
DownRoadItem(order, repetition) ==
  [defined |-> TRUE, order |-> order, repetition |-> repetition]

Returned(value) == [threw |-> FALSE, value |-> value]
\* TypeError: cannot read a property of undefined
TypeError == [threw |-> TRUE, value |-> <<>>]

maxColumnCount(bigRoadGraph) ==
  Max({0} \cup {Len(bigRoadGraph[r]) : r \in 1 .. Len(bigRoadGraph)})

\* the slip of reading item2 before item1
BeginIndexRowZeroFirst(bigRoadGraph, rowGap) ==
  IF Len(bigRoadGraph) < 2
  THEN [threw |-> TRUE, found |-> FALSE, order |-> 0]
  ELSE LET item1 == At(bigRoadGraph[2], rowGap)
           item2 == At(bigRoadGraph[1], rowGap + 1)
       IN IF IsDefined(item2) THEN [threw |-> FALSE, found |-> TRUE, order |-> item2.order]
          ELSE IF IsDefined(item1)
               THEN [threw |-> FALSE, found |-> TRUE, order |-> item1.order]
               ELSE [threw |-> FALSE, found |-> FALSE, order |-> 0]

\* lines 100-111: the order from which marks are emitted.  bigRoadGraph[1] and
\* bigRoadGraph[0] are read without a check, so a missing row throws.
BeginIndex(bigRoadGraph, rowGap) ==
  IF Len(bigRoadGraph) < 2
  THEN [threw |-> TRUE, found |-> FALSE, order |-> 0]
  ELSE LET item1 == At(bigRoadGraph[2], rowGap)
           item2 == At(bigRoadGraph[1], rowGap + 1)
       IN IF IsDefined(item1) THEN [threw |-> FALSE, found |-> TRUE, order |-> item1.order]
          ELSE IF IsDefined(item2)
               THEN [threw |-> FALSE, found |-> TRUE, order |-> item2.order]
               ELSE [threw |-> FALSE, found |-> FALSE, order |-> 0]

\* lines 114-128, one column: the IndexItems pushed for it, top to bottom
RECURSIVE ColumnItems(_, _, _)
ColumnItems(bigRoadGraph, columnIndex, rowIndex) ==
  IF rowIndex >= Len(bigRoadGraph) THEN <<>>
  ELSE LET item == At(bigRoadGraph[rowIndex + 1], columnIndex)
           rest == ColumnItems(bigRoadGraph, columnIndex, rowIndex + 1)
       IN IF IsDefined(item)
          THEN <<[rowIndex |-> rowIndex, columnIndex |-> columnIndex,
                  order |-> item.order]>> \o rest
          ELSE rest

\* lines 114-128: indexArr before it is sorted
RECURSIVE IndexArr(_, _)
IndexArr(bigRoadGraph, columnIndex) ==
  IF columnIndex >= maxColumnCount(bigRoadGraph) THEN <<>>
  ELSE ColumnItems(bigRoadGraph, columnIndex, 0)
         \o IndexArr(bigRoadGraph, columnIndex + 1)

\* lines 98, 115-127: lengthArr, the occupied length of each column
RECURSIVE LengthArr(_, _)
LengthArr(bigRoadGraph, columnIndex) ==
  IF columnIndex >= maxColumnCount(bigRoadGraph) THEN <<>>
  ELSE <<Num(Len(ColumnItems(bigRoadGraph, columnIndex, 0)))>>
         \o LengthArr(bigRoadGraph, columnIndex + 1)

\* line 131: indexArr.sort((a, b) => a.order - b.order), a stable sort
RECURSIVE InsertByOrder(_, _)
InsertByOrder(sorted, item) ==
  IF sorted = <<>> THEN <<item>>
  ELSE IF sorted[Len(sorted)].order <= item.order THEN Append(sorted, item)
  ELSE Append(InsertByOrder(SubSeq(sorted, 1, Len(sorted) - 1), item),
              sorted[Len(sorted)])

RECURSIVE SortFrom(_, _, _)
SortFrom(sorted, indexArr, i) ==
  IF i > Len(indexArr) THEN sorted
  ELSE SortFrom(InsertByOrder(sorted, indexArr[i]), indexArr, i + 1)

\* the slip of leaving indexArr in column-by-column order
SortSkipped(indexArr) == indexArr

SortByOrder(indexArr) == SortFrom(<<>>, indexArr, 1)

\* the slip of > for >= in line 133
EmittedStrictlyAfter(item, beginIndex) == item.order > beginIndex

\* line 133: the cells that get a mark
Emitted(item, beginIndex) == item.order >= beginIndex

\* the slip of comparing with the column rowGap to the left
RowZeroRepetitionGapColumn(lengthArr, columnIndex, rowGap) ==
  At(lengthArr, columnIndex - rowGap - 1) = At(lengthArr, columnIndex - rowGap)

\* lines 137-139: repetition of a mark for a cell in row 0
RowZeroRepetition(lengthArr, columnIndex, rowGap) ==
  At(lengthArr, columnIndex - rowGap - 1) = At(lengthArr, columnIndex - 1)

\* the slip of testing targetItem alone
LowerRowRepetitionTargetOnly(bigRoadGraph, rowIndex, columnIndex, rowGap) ==
  IsDefined(At(bigRoadGraph[rowIndex + 1], columnIndex - rowGap))

\* lines 142-150: repetition of a mark for a cell below row 0
LowerRowRepetition(bigRoadGraph, rowIndex, columnIndex, rowGap) ==
  LET lastItem == At(bigRoadGraph[rowIndex], columnIndex - rowGap)
      targetItem == At(bigRoadGraph[rowIndex + 1], columnIndex - rowGap)
  IN ~IsDefined(lastItem) \/ IsDefined(targetItem)

\* lines 134-152: the mark pushed for one IndexItem
MarkOf(bigRoadGraph, rowGap, lengthArr, item) ==
  IF item.rowIndex = 0
  THEN DownRoadItem(item.order, RowZeroRepetition(lengthArr, item.columnIndex, rowGap))
  ELSE DownRoadItem(item.order,
                    LowerRowRepetition(bigRoadGraph, item.rowIndex, item.columnIndex,
                                       rowGap))

\* lines 132-154: the forEach over the sorted indexArr
RECURSIVE EmitFrom(_, _, _, _, _, _)
EmitFrom(bigRoadGraph, rowGap, lengthArr, indexArr, beginIndex, i) ==
  IF i > Len(indexArr) THEN <<>>
  ELSE IF Emitted(indexArr[i], beginIndex)
  THEN <<MarkOf(bigRoadGraph, rowGap, lengthArr, indexArr[i])>>
         \o EmitFrom(bigRoadGraph, rowGap, lengthArr, indexArr, beginIndex, i + 1)
  ELSE EmitFrom(bigRoadGraph, rowGap, lengthArr, indexArr, beginIndex, i + 1)

\* lines 113-155: what runs once beginIndex is known
DownGraphArr(bigRoadGraph, rowGap, beginIndex) ==
  The({ EmitFrom(bigRoadGraph, rowGap, lengthArr, indexArr, beginIndex, 1) :
          lengthArr \in {LengthArr(bigRoadGraph, 0)},
          indexArr \in {SortByOrder(IndexArr(bigRoadGraph, 0))} })

generateDownRoadData(bigRoadGraph, rowGap) ==
  The({ IF begin.threw THEN TypeError
        ELSE IF ~begin.found THEN Returned(<<>>)
        ELSE Returned(DownGraphArr(bigRoadGraph, rowGap, begin.order)) :
          begin \in {BeginIndex(bigRoadGraph, rowGap)} })

(***************************************************************************)
(* Road: constructor and accessors                                         *)
(***************************************************************************)
\* Number.isInteger, on a number carried in halves
IsInteger(n) == n % 2 = 0

\* the slip of checking the row alone
InvalidDimensionsRowOnly(rowArg, columnArg) == ~IsInteger(rowArg) \/ rowArg <= 0

\* lines 238-243: the condition under which the constructor throws
InvalidDimensions(rowArg, columnArg) ==
  \/ ~IsInteger(rowArg)
  \/ ~IsInteger(columnArg)
  \/ rowArg <= 0
  \/ columnArg <= 0

rowCount == row
columnCount == column

(***************************************************************************)
(* DownRoad.getPrediction.  Arrays are objects: the heap maps a reference  *)
(* to the array it denotes, and push changes the array a reference denotes.*)
(***************************************************************************)
ThisRoundResults == "this.roundResults"
NewArray == "fakeRoundResults"

\* the slip of line 200 without the copy: fakeRoundResults = this.roundResults
ArrayMapFromAliased(heap, source) == [ref |-> source, heap |-> heap]

\* lines 200-202: this.roundResults.map(result => RoundResult.from(result));
\* map allocates a new array and leaves its receiver alone
ArrayMapFrom(heap, source) ==
  [ref |-> NewArray,
   heap |-> [heap EXCEPT ![NewArray] =
               [i \in 1 .. Len(heap[source]) |-> RoundResultFrom(heap[source][i])]]]

\* line 203: push appends in place to the array the reference denotes
ArrayPush(heap, ref, item) == [heap EXCEPT ![ref] = Append(@, item)]

Prediction(repetition) == [threw |-> FALSE, known |-> TRUE, repetition |-> repetition]
UnknownPrediction == [threw |-> FALSE, known |-> FALSE, repetition |-> FALSE]
PredictionThrew == [threw |-> TRUE, known |-> FALSE, repetition |-> FALSE]

\* lines 214-215: fakeDownRoadData[fakeDownRoadData.length - 1]
LastDownRoadItem(fakeDownRoadData) == At(fakeDownRoadData, Len(fakeDownRoadData) - 1)

\* lines 213-216: the value returned for the derived road of the fake history
PredictionOf(fakeDownRoadData) ==
  The({ IF fakeDownRoadData.threw THEN PredictionThrew
        ELSE IF IsDefined(fakeNextDownRoadItem)
             THEN Prediction(fakeNextDownRoadItem.repetition)
             ELSE UnknownPrediction :
          fakeNextDownRoadItem \in {LastDownRoadItem(fakeDownRoadData.value)} })

\* lines 200-203: the heap once the copy is made and the hypothetical round
\* pushed onto it, with the reference fakeRoundResults holds
FakeRoundResults(heap, fakeNextRound) ==
  The({ [ref |-> mapped.ref,
         heap |-> ArrayPush(mapped.heap, mapped.ref, fakeNextRound)] :
          mapped \in {ArrayMapFrom(heap, ThisRoundResults)} })

\* lines 204-216: the prediction read from the derived road of the fake history
PredictionFor(rowArg, columnArg, fakeRoundResults, downRoadGap) ==
  The({ The({ PredictionOf(fakeDownRoadData) :
                fakeDownRoadData \in {generateDownRoadData(fakeBigRoad, downRoadGap)} }) :
          fakeBigRoad \in {SharedBigRoad(rowArg, columnArg, fakeRoundResults)} })

\* lines 196-217; the result carries the heap the call leaves behind
getPrediction(heap, rowArg, columnArg, fakeNextRound, downRoadGap) ==
  The({ [heap |-> fake.heap,
         result |-> PredictionFor(rowArg, columnArg, fake.heap[fake.ref], downRoadGap)] :
          fake \in {FakeRoundResults(heap, fakeNextRound)} })

\* lines 163-168 and 180-185: the hypothetical round of bankerPrediction and
\* playerPrediction
FakeNextRound(results, gameResult) == RoundResult(Len(results), 0, gameResult, NoPair)

(***************************************************************************)
(* State machine                                                           *)
(***************************************************************************)
Call(op) ==
  [op |-> op, rowArg |-> 0, columnArg |-> 0, gap |-> 0, gameResult |-> Tie,
   threw |-> FALSE, known |-> FALSE, repetition |-> FALSE, data |-> <<>>]

Init ==
  /\ constructed = "no"
  /\ row = 0
  /\ column = 0
  /\ roundResults = <<>>
  /\ lastCall = Call("none")

\* new Road(row, column, results) with valid dimensions
ConstructorReturns ==
  \E rowArg \in RowInputs, columnArg \in ColumnInputs :
    /\ constructed = "no"
    /\ ~InvalidDimensions(rowArg, columnArg)
    /\ constructed' = "ok"
    /\ row' = rowArg
    /\ column' = columnArg
    /\ lastCall' = [Call("constructor") EXCEPT !.rowArg = rowArg,
                                               !.columnArg = columnArg]
    /\ UNCHANGED roundResults

\* new Road(row, column, results) throwing 'Row/Column must be positive integer'
ConstructorThrows ==
  \E rowArg \in RowInputs, columnArg \in ColumnInputs :
    /\ constructed = "no"
    /\ InvalidDimensions(rowArg, columnArg)
    /\ constructed' = "threw"
    /\ lastCall' = [Call("constructor") EXCEPT !.rowArg = rowArg,
                                               !.columnArg = columnArg,
                                               !.threw = TRUE]
    /\ UNCHANGED <<row, column, roundResults>>

\* the owner of the history records one more real round
AppendRound ==
  \E input \in RoundInputs :
    /\ constructed = "ok"
    /\ Len(roundResults) < MaxRounds
    /\ roundResults' = Append(roundResults,
                              RoundResult(Len(roundResults), input[1], input[2], input[3]))
    /\ lastCall' = [Call("append") EXCEPT !.gameResult = input[2]]
    /\ UNCHANGED <<constructed, row, column>>

\* bankerPrediction / playerPrediction of the road with the given gap
GetPrediction ==
  /\ constructed = "ok"
  /\ \E gameResult \in {BankerWin, PlayerWin}, downRoadGap \in DownRoadGap :
       \E call \in {getPrediction([a \in {ThisRoundResults, NewArray} |->
                                     IF a = ThisRoundResults THEN roundResults ELSE <<>>],
                                  row, column,
                                  FakeNextRound(roundResults, gameResult), downRoadGap)} :
         /\ roundResults' = call.heap[ThisRoundResults]
         /\ lastCall' = [Call("getPrediction") EXCEPT !.gap = downRoadGap,
                                                      !.gameResult = gameResult,
                                                      !.threw = call.result.threw,
                                                      !.known = call.result.known,
                                                      !.repetition = call.result.repetition]
  /\ UNCHANGED <<constructed, row, column>>

\* the derived road of the recorded history, for the given gap
GenerateDownRoadData ==
  /\ constructed = "ok"
  /\ \E rowGap \in DownRoadGap :
       \E bigRoadGraph \in {SharedBigRoad(row, column, roundResults)} :
         \E call \in {generateDownRoadData(bigRoadGraph, rowGap)} :
           lastCall' = [Call("generateDownRoadData") EXCEPT !.gap = rowGap,
                                                            !.threw = call.threw,
                                                            !.data = call.value]
  /\ UNCHANGED <<constructed, row, column, roundResults>>

Next ==
  \/ ConstructorReturns
  \/ ConstructorThrows
  \/ AppendRound
  \/ GetPrediction
  \/ GenerateDownRoadData

Spec == Init /\ [][Next]_vars


(***************************************************************************)
(* Vocabulary of the properties                                            *)
(***************************************************************************)
\* the primary grid of the recorded history
RecordedGraph == SharedBigRoad(row, column, roundResults)

\* the primary grid a prediction for gameResult is computed on
HypotheticalGraph(gameResult) ==
  SharedBigRoad(row, column, Append(roundResults, FakeNextRound(roundResults, gameResult)))

\* the occupied cells of a grid, as a set
Cells(graph) ==
  { [rowIndex |-> rc[1], columnIndex |-> rc[2], order |-> graph[rc[1] + 1][rc[2] + 1].order] :
      rc \in { p \in (0 .. Len(graph) - 1) \X (0 .. maxColumnCount(graph) - 1) :
                 Occupied(graph, p[1], p[2]) } }

Present(graph, r, c) == \E x \in Cells(graph) : x.rowIndex = r /\ x.columnIndex = c

CellOfOrder(graph, order) == CHOOSE x \in Cells(graph) : x.order = order

PopulatedColumns(graph) == { x.columnIndex : x \in Cells(graph) }

\* the occupied length of a column; a column the grid does not have has none
ColumnLength(graph, c) ==
  IF c \in 0 .. maxColumnCount(graph) - 1
  THEN Num(Cardinality({ x \in Cells(graph) : x.columnIndex = c }))
  ELSE Undefined

\* both columns are columns of the grid and their occupied lengths are equal
SameLength(graph, a, b) ==
  /\ IsDefined(ColumnLength(graph, a))
  /\ ColumnLength(graph, a) = ColumnLength(graph, b)

IsPositiveInteger(n) == \E k \in 1 .. n : n = 2 * k

IsGenerate == lastCall.op = "generateDownRoadData"
IsPrediction == lastCall.op = "getPrediction"

Orders(marks) == { marks[i].order : i \in 1 .. Len(marks) }

(***************************************************************************)
(* C1                                                                      *)
(***************************************************************************)
\* C1: a prediction query leaves the recorded history as it was, and a query
\* repeated with no append in between returns what the previous one returned.
C1_PredictionLeavesHistory ==
  [][lastCall'.op = "getPrediction" =>
       /\ roundResults' = roundResults
       /\ (/\ lastCall.op = "getPrediction"
           /\ lastCall.gap = lastCall'.gap
           /\ lastCall.gameResult = lastCall'.gameResult)
          => lastCall' = lastCall]_vars

\* a prediction that resolved to a colour was made on a history of three
\* rounds or more
C1_Witness == IsPrediction /\ lastCall.known /\ Len(roundResults) >= 3

(***************************************************************************)
(* C2                                                                      *)
(***************************************************************************)
\* C2: for every gap, the derived road of a history is never shorter than
\* the derived road of the history without its last round, and every mark
\* of the shorter history is still there: the shorter road is a prefix of
\* the longer one.
C2_MarksNeverRetracted ==
  (lastCall.op = "append") =>
    \A rowGap \in DownRoadGap :
      \A before \in {generateDownRoadData(
                       SharedBigRoad(row, column,
                                     SubSeq(roundResults, 1, Len(roundResults) - 1)),
                       rowGap)} :
        \A after \in {generateDownRoadData(RecordedGraph, rowGap)} :
          ~before.threw =>
            /\ ~after.threw
            /\ Len(after.value) >= Len(before.value)
            /\ SubSeq(after.value, 1, Len(before.value)) = before.value

\* an append made a derived road that already had marks longer
C2_Witness ==
  /\ lastCall.op = "append"
  /\ \E rowGap \in DownRoadGap :
       LET before == generateDownRoadData(
                       SharedBigRoad(row, column,
                                     SubSeq(roundResults, 1, Len(roundResults) - 1)),
                       rowGap)
           after == generateDownRoadData(RecordedGraph, rowGap)
       IN /\ ~before.threw
          /\ before.value # <<>>
          /\ Len(after.value) > Len(before.value)

(***************************************************************************)
(* C3                                                                      *)
(***************************************************************************)
\* the order of cell (1, g) if present, else of cell (0, g + 1)
BeginOrderCells(graph, rowGap) ==
  IF Present(graph, 1, rowGap)
  THEN { x \in Cells(graph) : x.rowIndex = 1 /\ x.columnIndex = rowGap }
  ELSE { x \in Cells(graph) : x.rowIndex = 0 /\ x.columnIndex = rowGap + 1 }

C4_ShortGridGivesEmpty ==
  (IsGenerate /\ Cardinality(PopulatedColumns(RecordedGraph)) < lastCall.gap + 1) =>
    /\ ~lastCall.threw
    /\ lastCall.data = <<>>

\* C4 on the roads of two rows or more
C4_ShortGridGivesEmptyFromTwoRows ==
  (/\ IsGenerate
   /\ Len(RecordedGraph) >= 2
   /\ Cardinality(PopulatedColumns(RecordedGraph)) < lastCall.gap + 1) =>
    /\ ~lastCall.threw
    /\ lastCall.data = <<>>

(***************************************************************************)
(* C5                                                                      *)
(***************************************************************************)
\* what the claim lets getPrediction return for the derived road of the
\* history with the hypothetical round appended
C5_Expected(rowGap, gameResult) ==
  LET road == generateDownRoadData(HypotheticalGraph(gameResult), rowGap).value
  IN IF road = <<>> THEN UnknownPrediction
     ELSE Prediction(road[Len(road)].repetition)

\* C5: getPrediction returns the repetition of the last mark of the derived
\* road of (history + hypothetical round), and unknown exactly when that road
\* is empty; with two rounds recorded and gap 2 it returns unknown.
C5_PredictionIsLastMark ==
  IsPrediction =>
    /\ [threw |-> lastCall.threw, known |-> lastCall.known,
        repetition |-> lastCall.repetition]
         = C5_Expected(lastCall.gap, lastCall.gameResult)
    /\ (Len(roundResults) = 2 /\ lastCall.gap = SmallRoadGap) => ~lastCall.known

\* C5 on the roads of two rows or more
C5_PredictionIsLastMarkFromTwoRows ==
  (IsPrediction /\ Len(RecordedGraph) >= 2) => C5_PredictionIsLastMark

(***************************************************************************)
(* C6                                                                      *)
(***************************************************************************)
\* C6: neither the derived-road builder nor a prediction raises an error,
\* whatever the valid dimensions of the road, the gap and the history.
C6_NeverThrows == (IsGenerate \/ IsPrediction) => ~lastCall.threw

(***************************************************************************)
(* C7                                                                      *)
(***************************************************************************)
\* C7: the constructor throws exactly when the row count or the column count
\* is not a positive integer, and otherwise rowCount and columnCount are the
\* values given.
C7_ConstructorValidates ==
  /\ (lastCall.op = "constructor") =>
       /\ lastCall.threw <=>
            ~(IsPositiveInteger(lastCall.rowArg) /\ IsPositiveInteger(lastCall.columnArg))
       /\ lastCall.threw <=> (constructed = "threw")
       /\ ~lastCall.threw =>
            (rowCount = lastCall.rowArg /\ columnCount = lastCall.columnArg)
  /\ (constructed = "ok") =>
       (IsPositiveInteger(rowCount) /\ IsPositiveInteger(columnCount))

\* a road was constructed with a row count different from its column count
C7_Witness ==
  /\ lastCall.op = "constructor"
  /\ ~lastCall.threw
  /\ lastCall.rowArg # lastCall.columnArg

(***************************************************************************)
(* C8                                                                      *)
(***************************************************************************)
\* the marks of the last generateDownRoadData call whose cell is in row 0
RowZeroMarks(graph) ==
  { i \in 1 .. Len(lastCall.data) : CellOfOrder(graph, lastCall.data[i].order).rowIndex = 0 }

\* C8 as claimed: a mark for a row-0 cell of column c repeats exactly when
\* the occupied lengths of columns c - g - 1 and c - g are equal (a column
\* the grid does not have equals none).
C8_RowZeroComparesGapColumn ==
  (IsGenerate /\ ~lastCall.threw) =>
    \A graph \in {RecordedGraph} :
      \A i \in RowZeroMarks(graph) :
        \A c \in {CellOfOrder(graph, lastCall.data[i].order).columnIndex} :
          lastCall.data[i].repetition <=>
            SameLength(graph, c - lastCall.gap - 1, c - lastCall.gap)

\* C8 as amended: a mark for a row-0 cell of column c repeats exactly when
\* the occupied lengths of columns c - g - 1 and c - 1 are equal (a column
\* the grid does not have equals none).
C8_RowZeroComparesPreviousColumn ==
  (IsGenerate /\ ~lastCall.threw) =>
    \A graph \in {RecordedGraph} :
      \A i \in RowZeroMarks(graph) :
        \A c \in {CellOfOrder(graph, lastCall.data[i].order).columnIndex} :
          lastCall.data[i].repetition <=>
            SameLength(graph, c - lastCall.gap - 1, c - 1)

\* a row-0 mark of a road with gap 2 or 3 for which the two readings differ
C8_Witness ==
  /\ IsGenerate
  /\ ~lastCall.threw
  /\ lastCall.gap > BigEyeRoadGap
  /\ \E i \in RowZeroMarks(RecordedGraph) :
       LET c == CellOfOrder(RecordedGraph, lastCall.data[i].order).columnIndex
       IN ColumnLength(RecordedGraph, c - lastCall.gap) # ColumnLength(RecordedGraph, c - 1)

(***************************************************************************)
(* C9                                                                      *)
(***************************************************************************)
\* the marks of the last generateDownRoadData call whose cell is below row 0
LowerRowMarks(graph) ==
  { i \in 1 .. Len(lastCall.data) : CellOfOrder(graph, lastCall.data[i].order).rowIndex > 0 }

\* C9: a mark for a cell at row r > 0 of column c does not repeat exactly
\* when cell (r - 1, c - g) is present and cell (r, c - g) is absent.
C9_LowerRowRule ==
  (IsGenerate /\ ~lastCall.threw) =>
    \A graph \in {RecordedGraph} :
      \A i \in LowerRowMarks(graph) :
        \A cell \in {CellOfOrder(graph, lastCall.data[i].order)} :
          (lastCall.data[i].repetition = FALSE) <=>
            (/\ Present(graph, cell.rowIndex - 1, cell.columnIndex - lastCall.gap)
             /\ ~Present(graph, cell.rowIndex, cell.columnIndex - lastCall.gap))

\* a road with a lower-row mark that does not repeat and one that repeats
\* although neither of the two cells it looks at is present
C9_Witness ==
  /\ IsGenerate
  /\ ~lastCall.threw
  /\ \E i \in LowerRowMarks(RecordedGraph) : ~lastCall.data[i].repetition
  /\ \E i \in LowerRowMarks(RecordedGraph) :
       LET cell == CellOfOrder(RecordedGraph, lastCall.data[i].order)
       IN /\ lastCall.data[i].repetition
          /\ ~Present(RecordedGraph, cell.rowIndex - 1, cell.columnIndex - lastCall.gap)
          /\ ~Present(RecordedGraph, cell.rowIndex, cell.columnIndex - lastCall.gap)

(***************************************************************************)
(* C10                                                                     *)
(***************************************************************************)
\* C10: when a prediction is not unknown, the last mark of the derived road
\* it was read from carries the order of the hypothetical round, which is
\* greater than the order of every recorded round.
C10_PredictionReadsHypotheticalMark ==
  (IsPrediction /\ lastCall.known) =>
    \A fake \in {FakeNextRound(roundResults, lastCall.gameResult)} :
      \A road \in {generateDownRoadData(HypotheticalGraph(lastCall.gameResult),
                                        lastCall.gap).value} :
        /\ \A i \in 1 .. Len(roundResults) : roundResults[i].order < fake.order
        /\ road # <<>>
        /\ road[Len(road)].order = fake.order

\* a known prediction on a grid in which the hypothetical round's cell is not
\* the last cell of the column-by-column scan
C10_Witness ==
  /\ IsPrediction
  /\ lastCall.known
  /\ LET indexArr == IndexArr(HypotheticalGraph(lastCall.gameResult), 0)
     IN indexArr[Len(indexArr)].order # Len(roundResults)


====
